---- MODULE Spec2Model ----
(***************************************************************************)
(* A model of nx_csv (src/nx_csv/__init__.py): the CSV readers             *)
(* (reader_gen, reader, dict_reader, obj_reader) as generator state        *)
(* machines, the list writer Writer, and the keyed and object writers      *)
(* built on _MapWriter.                                                    *)
(*                                                                         *)
(* Text is modelled as a sequence of one-character strings, so that        *)
(* stripping white space and building a rest key (prefix + index) are      *)
(* computed, not assumed.                                                  *)
(***************************************************************************)
EXTENDS Integers, Sequences, FiniteSets, TLC

VARIABLES
    api,        \* which entry point the caller holds: a reader, a Writer, a keyed writer
    opts,       \* the keyword arguments of the call
    input,      \* the records csv.reader will parse from the stream, each with the text lines it spans
    pos,        \* records csv.reader has returned so far
    last_end,   \* reader_gen._: last_end (rdr.line_num after the last record)
    names,      \* the keyed reader's field names (NoFields until known)
    out,        \* what the caller has been handed, in order
    produced,   \* history: every Line reader_gen._ built, before any handler
    log,        \* history: what became of each record csv.reader returned
    gstate,     \* the caller's generator: created, running (suspended at a yield), done
    err,        \* the error the last pull raised (NoErr when none)
    stream,     \* the underlying stream: times opened, times closed
    resumed,    \* the caller pulled again from a finished generator
    calls,      \* close(), __exit__ and __del__ calls made so far
    wobj,       \* the Writer object (the caller's, or a keyed writer's _wrtr)
    mw,         \* the keyed or object writer (_MapWriter and its mixins)
    written     \* history: the mappings a keyed writer's write() accepted

rvars == <<input, pos, last_end, names, produced, log, gstate, resumed>>
wvars == <<wobj, mw, written>>
vars == <<api, opts, out, err, stream, calls, rvars, wvars>>

-----------------------------------------------------------------------------
(* Bounds of the model *)

MaxRecs == 3
MaxCloses == 2
MaxWrites == 3

-----------------------------------------------------------------------------
(* Text *)

sA == <<"a">>
sB == <<"b">>
sC == <<"c">>
s1 == <<"1">>
s2 == <<"2">>
s3 == <<"3">>
s7 == <<"7">>
sA0 == <<"a", "0">>
sEmpty == <<>>
sPadB == <<" ", "b", " ">>

\* Python's None where a string is expected
None == <<"<None>">>
\* fields=None
NoFields == <<None>>
NoErr == <<>>

Digits == <<"0", "1", "2", "3", "4", "5", "6", "7", "8", "9">>

RECURSIVE lstrip(_)
lstrip(s) == IF s # <<>> /\ Head(s) = " " THEN lstrip(Tail(s)) ELSE s

RECURSIVE rstrip(_)
rstrip(s) ==
    IF s # <<>> /\ s[Len(s)] = " " THEN rstrip(SubSeq(s, 1, Len(s) - 1)) ELSE s

-----------------------------------------------------------------------------
(* reader_gen *)

\* class Line(rdr_utils.MutableLine, list): a list that carries its line number
Line(rec, n) == [line_num |-> n, data |-> rec]

NoItem == Line(<<>>, 0)

\* The handlers the doctests use: none, keep only line 2, drop line 2.
Handlers == {"none", "only2", "not2"}

\* handler(x) is not None
HandlerKeeps(h, x) ==
    CASE h = "none" -> TRUE
      [] h = "only2" -> x.line_num = 2
      [] h = "not2" -> x.line_num # 2

\* reader_gen._: result, last_end = Line(rec, last_end + 1), rdr.line_num
LineNumOf(le) == le + 1

\* A reader whose line_num counted records instead of text lines
CsvLineNumCountsRecords(le, rec) == le + 1

\* csv.reader: rdr.line_num counts the text lines read from the stream
CsvLineNum(le, rec) == le + rec.span

\* The keyword arguments each reader passes to reader_gen
GenHandler(a, o) ==
    CASE a \in {"reader_gen", "reader"} -> o.handler
      [] a \in {"dict_reader", "obj_reader"} -> o.raw_handler

-----------------------------------------------------------------------------
(* rdr_utils.list_reader, as reader calls it *)

\* reader without ignore_blanks=ignore_blanks in its call
ListArgsKeepBlanks(o) ==
    [leading_ws |-> o.leading_ws, trailing_ws |-> o.trailing_ws,
     ignore_blanks |-> FALSE]

ListArgs(o) ==
    [leading_ws |-> o.leading_ws, trailing_ws |-> o.trailing_ws,
     ignore_blanks |-> o.ignore_blanks]

StripField(s, la) ==
    LET l == IF la.leading_ws THEN s ELSE lstrip(s)
    IN IF la.trailing_ws THEN l ELSE rstrip(l)

StripAll(fs, la) == [i \in 1..Len(fs) |-> StripField(fs[i], la)]

ListSkips(line, la) == la.ignore_blanks /\ line.data = <<>>

ListMap(line, la) == [line EXCEPT !.data = StripAll(line.data, la)]

-----------------------------------------------------------------------------
(* rdr_utils.dict_reader and rdr_utils.obj_reader, as dict_reader and
   obj_reader call them *)

\* dict_reader without rest_val=rest_val in its call
DictArgsNoRestVal(o) ==
    [fields |-> o.fields, handler |-> o.handler,
     leading_ws |-> o.leading_ws, trailing_ws |-> o.trailing_ws,
     ignore_blanks |-> o.ignore_blanks,
     rest_key |-> o.rest_key, rest_val |-> None,
     ignore_rows_with_fields |-> o.ignore_rows_with_fields,
     field_rename |-> o.field_rename]

\* dict_reader without ignore_rows_with_fields=... in its call
DictArgsNoIgnoreFlag(o) ==
    [fields |-> o.fields, handler |-> o.handler,
     leading_ws |-> o.leading_ws, trailing_ws |-> o.trailing_ws,
     ignore_blanks |-> o.ignore_blanks,
     rest_key |-> o.rest_key, rest_val |-> o.rest_val,
     ignore_rows_with_fields |-> TRUE,
     field_rename |-> o.field_rename]

\* dict_reader without field_rename=field_rename in its call
DictArgsNoRename(o) ==
    [fields |-> o.fields, handler |-> o.handler,
     leading_ws |-> o.leading_ws, trailing_ws |-> o.trailing_ws,
     ignore_blanks |-> o.ignore_blanks,
     rest_key |-> o.rest_key, rest_val |-> o.rest_val,
     ignore_rows_with_fields |-> o.ignore_rows_with_fields,
     field_rename |-> {}]

DictArgs(o) ==
    [fields |-> o.fields, handler |-> o.handler,
     leading_ws |-> o.leading_ws, trailing_ws |-> o.trailing_ws,
     ignore_blanks |-> o.ignore_blanks,
     rest_key |-> o.rest_key, rest_val |-> o.rest_val,
     ignore_rows_with_fields |-> o.ignore_rows_with_fields,
     field_rename |-> o.field_rename]

\* field_rename as a set of <<from, to>> pairs; unmapped names pass through
Rename(fr, n) ==
    IF \E p \in fr : p[1] = n THEN (CHOOSE p \in fr : p[1] = n)[2] ELSE n

RestKey(prefix, i) == prefix \o <<Digits[i + 1]>>

\* The keys of one record, in binding order: the renamed names, then the
\* synthesized rest keys for the values past the names
KeysFor(nms, m, da) ==
    [i \in 1..(IF m > Len(nms) THEN m ELSE Len(nms)) |->
        IF i <= Len(nms) THEN Rename(da.field_rename, nms[i])
        ELSE RestKey(da.rest_key, i - Len(nms) - 1)]

\* The values of one record, in binding order: the row's, then rest_val for
\* the names the row does not reach
ValsFor(nms, vals, da) ==
    [i \in 1..(IF Len(vals) > Len(nms) THEN Len(vals) ELSE Len(nms)) |->
        IF i <= Len(vals) THEN vals[i] ELSE da.rest_val]

\* dict(zip(keys, values)): a later binding of a key replaces an earlier one
MakeDict(ks, vs) ==
    [k \in {ks[i] : i \in 1..Len(ks)} |->
        vs[CHOOSE i \in 1..Len(ks) :
              ks[i] = k /\ \A j \in 1..Len(ks) : ks[j] = k => j <= i]]

ArityError(tag, line, n, m) == <<tag, line, n, m>>

Reconcile(line, nms, da) ==
    LET n == Len(nms)
        m == Len(line.data)
    IN  IF m < n /\ da.rest_val = None
        THEN [ok |-> FALSE, err |-> ArityError("insufficient fields", line.line_num, n, m),
              item |-> NoItem]
        ELSE IF m > n /\ da.rest_key = None
        THEN [ok |-> FALSE, err |-> ArityError("too many fields", line.line_num, n, m),
              item |-> NoItem]
        ELSE [ok |-> TRUE, err |-> NoErr,
              item |-> Line(MakeDict(KeysFor(nms, m, da), ValsFor(nms, line.data, da)),
                            line.line_num)]

IsHeaderRow(line, nms, da) == da.ignore_rows_with_fields /\ line.data = nms

-----------------------------------------------------------------------------
(* One record through the whole pipeline of the reader the caller holds.
   res: "skip" (nothing is handed to the caller), "yield" or "error". *)

Outcome(res, tag, handled, item, nms, e) ==
    [res |-> res, tag |-> tag, handled |-> handled, item |-> item,
     names |-> nms, err |-> e]

\* handled: the caller's handler was invoked with the record's mapping
DictStage(line, nms, da) ==
    IF nms = NoFields THEN Outcome("skip", "header", FALSE, NoItem, line.data, NoErr)
    ELSE IF IsHeaderRow(line, nms, da)
    THEN Outcome("skip", "dup", FALSE, NoItem, nms, NoErr)
    ELSE LET r == Reconcile(line, nms, da)
             h == da.handler # "none"
         IN  IF ~r.ok THEN Outcome("error", "error", FALSE, NoItem, nms, r.err)
             ELSE IF ~HandlerKeeps(da.handler, r.item)
             THEN Outcome("skip", "handler", h, NoItem, nms, NoErr)
             ELSE Outcome("yield", "yield", h, r.item, nms, NoErr)

Process(a, o, line, nms) ==
    IF ~HandlerKeeps(GenHandler(a, o), line)
    THEN Outcome("skip", "raw_handler", FALSE, NoItem, nms, NoErr)
    ELSE IF a = "reader_gen" THEN Outcome("yield", "yield", FALSE, line, nms, NoErr)
    ELSE IF a = "reader"
    THEN IF ListSkips(line, ListArgs(o))
         THEN Outcome("skip", "blank", FALSE, NoItem, nms, NoErr)
         ELSE Outcome("yield", "yield", FALSE, ListMap(line, ListArgs(o)), nms, NoErr)
    ELSE LET da == DictArgs(o)
         IN  IF ListSkips(line, da) THEN Outcome("skip", "blank", FALSE, NoItem, nms, NoErr)
             ELSE DictStage(ListMap(line, da), nms, da)

\* One pull by the caller: records are consumed until one is yielded, one
\* raises, or the stream ends.
RECURSIVE Drive(_, _, _, _, _, _, _, _)
Drive(inp, a, o, p, le, nms, pr, lg) ==
    IF p = Len(inp)
    THEN [res |-> "stop", pos |-> p, last_end |-> le, names |-> nms,
          produced |-> pr, log |-> lg, item |-> NoItem, err |-> NoErr]
    ELSE LET rec == inp[p + 1]
             line == Line(rec.fields, LineNumOf(le))
             le2 == CsvLineNum(le, rec)
             oc == Process(a, o, line, nms)
             pr2 == Append(pr, line)
             lg2 == Append(lg, [tag |-> oc.tag, handled |-> oc.handled])
         IN  IF oc.res = "skip" THEN Drive(inp, a, o, p + 1, le2, oc.names, pr2, lg2)
             ELSE [res |-> oc.res, pos |-> p + 1, last_end |-> le2, names |-> oc.names,
                   produced |-> pr2, log |-> lg2, item |-> oc.item, err |-> oc.err]


-----------------------------------------------------------------------------
(* The readers as generators *)

Readers == {"reader_gen", "reader", "dict_reader", "obj_reader"}

\* A reader that caught the error of one record and went on
GenStateAfterResumable(res) == IF res \in {"yield", "error"} THEN "running" ELSE "done"

\* A generator that yielded is suspended; one that returned, or that an
\* exception left (reader, dict_reader, obj_reader: try ... finally
\* rdr.close()), is finished.
GenStateAfter(res) == IF res = "yield" THEN "running" ELSE "done"

\* open_src as reader_gen's with statement uses it: entered at the first
\* pull, left when reader_gen finishes or is closed
StreamAfter(st, before, after, managed) ==
    [opens |-> st.opens + (IF managed /\ before = "created" /\ after # "created" THEN 1 ELSE 0),
     closes |-> st.closes + (IF managed /\ after = "done" THEN 1 ELSE 0)]

NoWriter == [state |-> "none", closed |-> TRUE, managed |-> FALSE, handler |-> "none"]
NewWriter == [NoWriter EXCEPT !.state = "new"]
NoMapWriter ==
    [state |-> "none", fields_used |-> {}, spill |-> <<>>, spill_open |-> FALSE,
     finalized |-> FALSE, closed |-> TRUE, order |-> <<>>, replayed |-> 0]
NewMapWriter == [NoMapWriter EXCEPT !.state = "new"]

\* next(gen) on a generator that can still run
Pull ==
    /\ api \in Readers
    /\ gstate \in {"created", "running"}
    /\ LET d == Drive(input, api, opts, pos, last_end, names, produced, log)
           g == GenStateAfter(d.res)
       IN  /\ pos' = d.pos
           /\ last_end' = d.last_end
           /\ names' = d.names
           /\ produced' = d.produced
           /\ log' = d.log
           /\ out' = IF d.res = "yield" THEN Append(out, d.item) ELSE out
           /\ err' = IF d.res = "error" THEN d.err ELSE err
           /\ gstate' = g
           /\ stream' = StreamAfter(stream, gstate, g, opts.managed)
    /\ UNCHANGED <<api, opts, input, resumed, calls, wvars>>

\* next(gen) on a finished generator: StopIteration
PullFinished ==
    /\ api \in Readers
    /\ gstate = "done"
    /\ ~resumed
    /\ resumed' = TRUE
    /\ UNCHANGED <<api, opts, out, err, stream, calls, input, pos, last_end,
                   names, produced, log, gstate, wvars>>

\* gen.close(), also what dropping the last reference to the generator does;
\* on a finished generator it does nothing
GenClose ==
    /\ api \in Readers
    /\ gstate' = "done"
    /\ stream' = IF gstate = "running"
                 THEN StreamAfter(stream, gstate, "done", opts.managed)
                 ELSE stream
    /\ UNCHANGED <<api, opts, out, err, calls, input, pos, last_end, names,
                   produced, log, resumed, wvars>>

NextReader == Pull \/ PullFinished \/ GenClose

DefaultOpts ==
    [handler |-> "none", raw_handler |-> "none", leading_ws |-> FALSE,
     trailing_ws |-> FALSE, ignore_blanks |-> TRUE, fields |-> NoFields,
     rest_key |-> None, rest_val |-> None, ignore_rows_with_fields |-> TRUE,
     field_rename |-> {}, managed |-> TRUE]

SeqsUpTo(S, n) == UNION {[1..k -> S] : k \in 0..n}

InitReaderWith(a, o, inp) ==
    /\ api = a
    /\ opts = o
    /\ input = inp
    /\ pos = 0
    /\ last_end = 0
    /\ names = o.fields
    /\ out = <<>>
    /\ produced = <<>>
    /\ log = <<>>
    /\ gstate = "created"
    /\ err = NoErr
    /\ stream = [opens |-> 0, closes |-> 0]
    /\ resumed = FALSE
    /\ calls = 0
    /\ wobj = NoWriter
    /\ mw = NoMapWriter
    /\ written = <<>>

\* reader_gen and reader: rows of text, a blank line, a record of two lines
RowRecs ==
    {[fields |-> <<>>, span |-> 1]}
    \cup {[fields |-> f, span |-> n] : f \in {<<sA>>, <<s1, sPadB>>}, n \in {1, 2}}

GenOpts == {[DefaultOpts EXCEPT !.handler = h] : h \in {"none", "only2"}}

ListOpts ==
    {[DefaultOpts EXCEPT !.handler = h, !.leading_ws = ws[1], !.trailing_ws = ws[2],
                         !.ignore_blanks = b] :
        h \in {"none", "only2"},
        ws \in {<<FALSE, FALSE>>, <<TRUE, FALSE>>, <<FALSE, TRUE>>},
        b \in BOOLEAN}

InitRows ==
    \E inp \in SeqsUpTo(RowRecs, MaxRecs) :
        \/ \E o \in GenOpts : InitReaderWith("reader_gen", o, inp)
        \/ \E o \in ListOpts : InitReaderWith("reader", o, inp)

SpecRows == InitRows /\ [][NextReader]_vars

\* dict_reader and obj_reader: a row equal to the names once stripped, a
\* full row, a short row, a long row, a blank line
DictRecs ==
    {[fields |-> f, span |-> 1] :
        f \in {<<sA, sPadB>>, <<s1, s2>>, <<s3>>, <<s1, s2, s3>>, <<>>}}

DictOpts ==
    {[DefaultOpts EXCEPT !.fields = f, !.rest_key = rk, !.rest_val = rv,
                         !.ignore_rows_with_fields = ig] :
        f \in {NoFields, <<sA, sB>>}, rk \in {None, sA}, rv \in {None, s7},
        ig \in BOOLEAN}
    \cup {[DefaultOpts EXCEPT !.fields = f, !.rest_key = rk, !.rest_val = s7,
                              !.field_rename = fr] :
            f \in {NoFields, <<sA, sB>>}, rk \in {None, sA},
            fr \in {{<<sB, sC>>}, {<<sB, sA0>>}, {<<sA, sB>>, <<sB, sC>>}}}
    \cup {[DefaultOpts EXCEPT !.fields = f, !.handler = "not2", !.raw_handler = rh] :
            f \in {NoFields, <<sA, sB>>}, rh \in {"none", "not2"}}
    \cup {[DefaultOpts EXCEPT !.fields = f, !.rest_val = rv, !.ignore_blanks = FALSE] :
            f \in {NoFields, <<sA, sB>>}, rv \in {None, s7}}

ObjOpts ==
    {[DefaultOpts EXCEPT !.fields = f, !.ignore_rows_with_fields = ig] :
        f \in {NoFields, <<sA, sB>>}, ig \in BOOLEAN}

InitDict ==
    \E inp \in SeqsUpTo(DictRecs, MaxRecs) :
        \/ \E o \in DictOpts : InitReaderWith("dict_reader", o, inp)
        \/ \E o \in ObjOpts : InitReaderWith("obj_reader", o, inp)

SpecDict == InitDict /\ [][NextReader]_vars

-----------------------------------------------------------------------------
(* Writer *)

\* The handlers of the writers: none, or one that returns None for an empty
\* record
RowHandlerKeeps(h, data) == h = "none" \/ data # <<>>

\* How a constructor call can go: the stream cannot be opened, csv.writer
\* rejects its arguments, or both succeed
CtorOutcomes == {"ok", "open_fails", "writer_fails"}

\* Writer.__init__: _closed is True (the class attribute) until the last line
WriterInitOp(managed, handler, outcome, st) ==
    CASE outcome = "open_fails" ->
            [w |-> [state |-> "failed", closed |-> TRUE, managed |-> managed,
                    handler |-> handler],
             st |-> st, err |-> <<"OSError">>]
      [] outcome = "writer_fails" ->
            [w |-> [state |-> "failed", closed |-> TRUE, managed |-> managed,
                    handler |-> handler],
             st |-> [opens |-> st.opens + (IF managed THEN 1 ELSE 0),
                     closes |-> st.closes + (IF managed THEN 1 ELSE 0)],
             err |-> <<"csv.Error">>]
      [] outcome = "ok" ->
            [w |-> [state |-> "open", closed |-> FALSE, managed |-> managed,
                    handler |-> handler],
             st |-> [opens |-> st.opens + (IF managed THEN 1 ELSE 0),
                     closes |-> st.closes],
             err |-> NoErr]

\* A close that does not look at _closed
WriterCloseOpUnguarded(w, st) ==
    [w |-> [w EXCEPT !.closed = TRUE,
                     !.state = IF w.state = "open" THEN "closed" ELSE w.state],
     st |-> [st EXCEPT !.closes = st.closes + (IF w.managed THEN 1 ELSE 0)]]

\* Writer.close
WriterCloseOp(w, st) ==
    IF ~w.closed
    THEN [w |-> [w EXCEPT !.closed = TRUE, !.state = "closed"],
          st |-> [st EXCEPT !.closes = st.closes + (IF w.managed THEN 1 ELSE 0)]]
    ELSE [w |-> w, st |-> st]

\* A write that returns whenever no handler is set
WriterWriteOpLosesRows(w, rows, data) ==
    IF w.handler = "none" \/ ~RowHandlerKeeps(w.handler, data)
    THEN [rows |-> rows, err |-> NoErr]
    ELSE IF w.state # "open" THEN [rows |-> rows, err |-> <<"AttributeError">>]
    ELSE [rows |-> Append(rows, data), err |-> NoErr]

\* Writer.write: after close _obj is None, and writerow raises
WriterWriteOp(w, rows, data) ==
    IF ~RowHandlerKeeps(w.handler, data) THEN [rows |-> rows, err |-> NoErr]
    ELSE IF w.state # "open" THEN [rows |-> rows, err |-> <<"AttributeError">>]
    ELSE [rows |-> Append(rows, data), err |-> NoErr]

WriterInit ==
    /\ api = "Writer"
    /\ wobj.state = "new"
    /\ \E oc \in CtorOutcomes :
          LET r == WriterInitOp(opts.managed, opts.handler, oc, stream)
          IN  /\ wobj' = r.w
              /\ stream' = r.st
              /\ err' = r.err
    /\ UNCHANGED <<api, opts, out, calls, rvars, mw, written>>

WriteRows == {<<>>, <<sA>>, <<s1, s2>>}

WriterWrite ==
    /\ api = "Writer"
    /\ wobj.state \in {"open", "closed"}
    /\ Len(out) < MaxWrites
    /\ \E data \in WriteRows :
          LET r == WriterWriteOp(wobj, out, data)
          IN  /\ out' = r.rows
              /\ err' = IF r.err # NoErr THEN r.err ELSE err
    /\ UNCHANGED <<api, opts, stream, calls, rvars, wvars>>

WriterCloseCall ==
    LET r == WriterCloseOp(wobj, stream)
    IN  /\ calls < MaxCloses
        /\ calls' = calls + 1
        /\ wobj' = r.w
        /\ stream' = r.st
        /\ UNCHANGED <<api, opts, out, err, rvars, mw, written>>

\* close()
WriterClose ==
    /\ api = "Writer"
    /\ wobj.state \in {"open", "closed"}
    /\ WriterCloseCall

\* __exit__: self.close()
WriterExit ==
    /\ api = "Writer"
    /\ wobj.state \in {"open", "closed"}
    /\ WriterCloseCall

\* __del__: self.close(), also on an object whose __init__ raised
WriterDel ==
    /\ api = "Writer"
    /\ wobj.state \in {"open", "closed", "failed"}
    /\ WriterCloseCall

NextWriter == WriterInit \/ WriterWrite \/ WriterClose \/ WriterExit \/ WriterDel

InitWriterWith(a, o) ==
    /\ api = a
    /\ opts = o
    /\ input = <<>>
    /\ pos = 0
    /\ last_end = 0
    /\ names = NoFields
    /\ out = <<>>
    /\ produced = <<>>
    /\ log = <<>>
    /\ gstate = "none"
    /\ err = NoErr
    /\ stream = [opens |-> 0, closes |-> 0]
    /\ resumed = FALSE
    /\ calls = 0
    /\ written = <<>>

InitWriter ==
    \E h \in {"none", "nonempty"}, m \in BOOLEAN :
        /\ InitWriterWith("Writer", [handler |-> h, managed |-> m])
        /\ wobj = NewWriter
        /\ mw = NoMapWriter

\* The readers and the Writer, each over a stream of its own or the caller's
ResRecs == {[fields |-> f, span |-> 1] : f \in {<<s1, s2>>, <<s3>>}}

InitResReaders ==
    \E a \in {"reader_gen", "reader", "dict_reader", "obj_reader"}, m \in BOOLEAN,
       inp \in SeqsUpTo(ResRecs, MaxRecs) :
        InitReaderWith(a, [DefaultOpts EXCEPT !.managed = m, !.fields = <<sA, sB>>], inp)

InitRes == InitWriter \/ InitResReaders

SpecRes == InitRes /\ [][NextWriter \/ NextReader]_vars

\* C8: the stream a Writer or a reader generator opened itself is closed once
\* and only once after any close(), __exit__, __del__ or abandonment (also
\* after several), and never a second time; a Writer whose constructor
\* failed after opening the stream has closed it, and teardown leaves it so
C8_ClosedOnce ==
    /\ stream.closes <= stream.opens
    /\ stream.opens <= 1
    /\ (api = "Writer" /\ stream.opens = 1 /\ (calls >= 1 \/ wobj.state = "failed"))
          => stream.closes = 1
    /\ (api \in Readers /\ stream.opens = 1 /\ gstate = "done") => stream.closes = 1

C8_Witness ==
    /\ api = "Writer"
    /\ Len(out) >= 1
    /\ calls = 2
    /\ stream = [opens |-> 1, closes |-> 1]

-----------------------------------------------------------------------------
(* _MapWriter, DictWriter, ObjWriter *)

MapWriters == {"DictWriter", "ObjWriter"}

\* A mapping handed to write() is a set of <<key, value>> pairs, one per key
Keys(m) == {p[1] : p \in m}
Get(m, k) == (CHOOSE p \in m : p[1] = k)[2]
Restrict(m, ks) == {p \in m : p[1] \in ks}

FieldSet(o) == {o.fields[i] : i \in 1..Len(o.fields)}

\* A writer that starts from every declared field
InitFieldsUsedAll(o) == FieldSet(o)

\* _MapWriter.__init__: self._fields_used = set(self.include or {})
InitFieldsUsed(o) == o.include

\* An except clause that only re-raises
OnInitFailureLeavesOpen(w, st) == [w |-> w, st |-> st]

\* _MapWriter.__init__: except: self._wrtr.close(); raise
OnInitFailure(w, st) == WriterCloseOp(w, st)

MapCtorOutcomes == CtorOutcomes \cup {"spool_fails"}

FailedMapWriter == [NoMapWriter EXCEPT !.state = "failed"]

\* DictWriter.__init__ and ObjWriter.__init__, through _MapWriter.__init__.
\* The system is [mw, w, st, rows, err].
MapWriterInitOp(o, outcome, st) ==
    LET wi == WriterInitOp(o.managed, "none",
                           IF outcome = "spool_fails" THEN "ok" ELSE outcome, st)
    IN  IF wi.w.state = "failed"
        THEN [mw |-> FailedMapWriter, w |-> wi.w, st |-> wi.st, rows |-> <<>>,
              err |-> wi.err]
        ELSE IF ~o.minimize
        THEN [mw |-> [NoMapWriter EXCEPT !.state = "open", !.closed = FALSE],
              w |-> wi.w, st |-> wi.st, rows |-> <<>>, err |-> NoErr]
        ELSE LET used == InitFieldsUsed(o)
                 extras == used \ FieldSet(o)
                 c == OnInitFailure(wi.w, wi.st)
             IN  IF extras # {}
                 THEN [mw |-> FailedMapWriter, w |-> c.w, st |-> c.st, rows |-> <<>>,
                       err |-> <<"ValueError", "include specifies fields not specified",
                                 extras>>]
                 ELSE IF outcome = "spool_fails"
                 THEN [mw |-> FailedMapWriter, w |-> c.w, st |-> c.st, rows |-> <<>>,
                       err |-> <<"OSError">>]
                 ELSE [mw |-> [NoMapWriter EXCEPT !.state = "open", !.closed = FALSE,
                                                  !.fields_used = used,
                                                  !.spill_open = TRUE],
                       w |-> wi.w, st |-> wi.st, rows |-> <<>>, err |-> NoErr]

\* The values of one mapping in the order given; a missing key gives
\* rest_val, which csv writes as the empty string when it is None
Extract(m, order, rest_val) ==
    [i \in 1..Len(order) |->
        IF order[i] \in Keys(m) THEN Get(m, order[i])
        ELSE IF rest_val = None THEN sEmpty ELSE rest_val]

\* The declared fields that are in use, in declared order
MinimalOrder(o, used) == SelectSeq(o.fields, LAMBDA f : f \in used)

MapHandlerKeeps(h, m) == h = "none" \/ m # {}

\* write(): S is the system [mw, w, st, rows, err], a the class, m the mapping
MWWriteOp(a, o, S, m) ==
    IF S.mw.closed THEN [S EXCEPT !.err = <<"AttributeError">>]
    ELSE IF ~MapHandlerKeeps(o.handler, m) THEN S
    ELSE IF a = "DictWriter" /\ o.extras_action = "raise" /\ Keys(m) \ FieldSet(o) # {}
    THEN [S EXCEPT !.err = <<"ValueError", "extras", Keys(m) \ FieldSet(o)>>]
    ELSE LET mm == Restrict(m, FieldSet(o))
         IN  IF o.minimize /\ ~S.mw.finalized
             THEN [S EXCEPT !.mw.spill = Append(@, mm),
                            !.mw.fields_used = @ \cup Keys(mm)]
             ELSE LET r == WriterWriteOp(S.w, S.rows,
                               Extract(mm, IF o.minimize THEN S.mw.order ELSE o.fields,
                                       o.rest_val))
                  IN  [S EXCEPT !.rows = r.rows,
                                !.err = IF r.err # NoErr THEN r.err ELSE @]

RECURSIVE WriteAll(_, _, _)
WriteAll(w, rows, datas) ==
    IF datas = <<>> THEN rows
    ELSE WriteAll(w, WriterWriteOp(w, rows, Head(datas)).rows, Tail(datas))

\* finalize(): the header, then the spilled records in the order written
MWFinalizeOp(o, S) ==
    IF ~o.minimize \/ S.mw.finalized \/ S.mw.closed THEN S
    ELSE LET order == MinimalOrder(o, S.mw.fields_used)
             replay == [i \in 1..Len(S.mw.spill) |->
                           Extract(S.mw.spill[i], order, o.rest_val)]
         IN  [S EXCEPT !.rows = WriteAll(S.w, S.rows, <<order>> \o replay),
                       !.mw.order = order,
                       !.mw.replayed = Len(S.mw.spill),
                       !.mw.finalized = TRUE,
                       !.mw.spill = <<>>,
                       !.mw.spill_open = FALSE]

\* close(): finalize if that is still to do, then close the Writer
MWCloseOp(o, S) ==
    IF S.mw.state # "open" \/ S.mw.closed THEN S
    ELSE LET F == MWFinalizeOp(o, S)
             c == WriterCloseOp(F.w, F.st)
         IN  [F EXCEPT !.w = c.w, !.st = c.st, !.mw.closed = TRUE]

Sys == [mw |-> mw, w |-> wobj, st |-> stream, rows |-> out, err |-> err]

SetSys(S) ==
    /\ mw' = S.mw
    /\ wobj' = S.w
    /\ stream' = S.st
    /\ out' = S.rows
    /\ err' = S.err

MapWriterInit ==
    /\ api \in MapWriters
    /\ mw.state = "new"
    /\ \E oc \in MapCtorOutcomes : SetSys(MapWriterInitOp(opts, oc, stream))
    /\ UNCHANGED <<api, opts, calls, rvars, written>>

WriteMaps ==
    {{}, {<<sA, s1>>}, {<<sB, s2>>}, {<<sA, sA>>, <<sC, sC>>},
     {<<sA, sPadB>>, <<sC, s3>>}, {<<sA, s1>>, <<sA0, s2>>}}

MWWrite ==
    /\ api \in MapWriters
    /\ mw.state = "open"
    /\ Len(written) < MaxWrites
    /\ \E m \in WriteMaps :
          LET S == MWWriteOp(api, opts, Sys, m)
          IN  /\ SetSys(S)
              /\ written' = IF S.mw.spill # mw.spill \/ S.rows # out
                            THEN Append(written, Restrict(m, FieldSet(opts)))
                            ELSE written
    /\ UNCHANGED <<api, opts, calls, rvars>>

MWFinalize ==
    /\ api \in MapWriters
    /\ mw.state = "open"
    /\ opts.minimize
    /\ SetSys(MWFinalizeOp(opts, Sys))
    /\ UNCHANGED <<api, opts, calls, rvars, written>>

MWCloseCall ==
    /\ calls < MaxCloses
    /\ calls' = calls + 1
    /\ SetSys(MWCloseOp(opts, Sys))
    /\ UNCHANGED <<api, opts, rvars, written>>

\* close()
MWClose ==
    /\ api \in MapWriters
    /\ mw.state = "open"
    /\ MWCloseCall

\* DictWriter.__del__, ObjWriter.__del__: self.close()
MWDel ==
    /\ api \in MapWriters
    /\ mw.state \in {"open", "failed"}
    /\ MWCloseCall

NextMapWriter == MapWriterInit \/ MWWrite \/ MWFinalize \/ MWClose \/ MWDel

MapOpts ==
    {[fields |-> <<sA, sB, sC>>, minimize |-> mz, include |-> inc, rest_val |-> rv,
      extras_action |-> "raise", handler |-> "none", managed |-> mg] :
        mz \in BOOLEAN, inc \in {{}, {sC}, {sA, sA0}}, rv \in {None, s7},
        mg \in BOOLEAN}
    \cup {[fields |-> <<sA, sB, sC>>, minimize |-> TRUE, include |-> {}, rest_val |-> None,
           extras_action |-> ea, handler |-> h, managed |-> TRUE] :
            ea \in {"raise", "ignore"}, h \in {"none", "nonempty"}}

InitMapWriter ==
    \E a \in MapWriters, o \in MapOpts :
        /\ InitWriterWith(a, o)
        /\ wobj = NoWriter
        /\ mw = NewMapWriter

SpecMap == InitMapWriter /\ [][NextMapWriter]_vars

-----------------------------------------------------------------------------
(* The text of a row, as csv.writer writes it and csv.reader parses it, for
   fields without delimiter, quote or line break *)

RECURSIVE JoinComma(_)
JoinComma(row) ==
    IF Len(row) = 1 THEN row[1] ELSE row[1] \o <<",">> \o JoinComma(Tail(row))

\* writerow: an empty row is an empty line, a single empty field is quoted
CsvEmit(row) ==
    IF row = <<>> THEN <<>>
    ELSE IF row = <<sEmpty>> THEN <<"\"", "\"">>
    ELSE JoinComma(row)

RECURSIVE SplitComma(_, _, _)
SplitComma(text, cur, acc) ==
    IF text = <<>> THEN Append(acc, cur)
    ELSE IF Head(text) = "," THEN SplitComma(Tail(text), <<>>, Append(acc, cur))
    ELSE SplitComma(Tail(text), Append(cur, Head(text)), acc)

\* csv.reader on one line: an empty line is the empty record
CsvParse(text) ==
    IF text = <<>> THEN <<>>
    ELSE IF text = <<"\"", "\"">> THEN <<sEmpty>>
    ELSE SplitComma(text, <<>>, <<>>)

\* list(dict_reader(...)) over the rows a writer wrote
RECURSIVE ReadAll(_, _, _, _, _, _, _)
ReadAll(inp, a, o, p, le, nms, acc) ==
    LET d == Drive(inp, a, o, p, le, nms, <<>>, <<>>)
    IN  IF d.res = "yield"
        THEN ReadAll(inp, a, o, d.pos, d.last_end, d.names, Append(acc, d.item))
        ELSE [items |-> acc, err |-> d.err]

ReadBack(rows, ro) ==
    ReadAll([i \in 1..Len(rows) |-> [fields |-> CsvParse(CsvEmit(rows[i])), span |-> 1]],
            "dict_reader", ro, 0, 0, ro.fields, <<>>)

AsMap(item) == {<<k, item.data[k]>> : k \in DOMAIN item.data}

RECURSIVE WriteMappings(_, _, _, _)
WriteMappings(a, o, S, ms) ==
    IF ms = <<>> THEN S ELSE WriteMappings(a, o, MWWriteOp(a, o, S, Head(ms)), Tail(ms))

\* The rows a fresh writer with the same settings emits for the mappings ms
Rewrite(a, o, ms) ==
    MWCloseOp(o, WriteMappings(a, o,
                     MapWriterInitOp(o, "ok", [opens |-> 0, closes |-> 0]), ms)).rows

-----------------------------------------------------------------------------
(* Properties of the readers *)

RECURSIVE SumSpans(_, _)
SumSpans(inp, k) == IF k = 0 THEN 0 ELSE inp[k].span + SumSpans(inp, k - 1)

LineNums(items) == [i \in 1..Len(items) |-> items[i].line_num]

RECURSIVE Indices(_, _)
\* The indices 1..n that satisfy keep, in increasing order
Indices(keep(_), n) ==
    IF n = 0 THEN <<>>
    ELSE IF keep(n) THEN Append(Indices(keep, n - 1), n) ELSE Indices(keep, n - 1)

\* C6 as claimed: the k-th record reader_gen builds carries line_num = k
C6_LineNumIsRecordIndex ==
    api \in Readers => \A k \in 1..Len(produced) : produced[k].line_num = k

\* C6, amended: the k-th record reader_gen builds carries the number of the
\* text line it starts on, one more than the text lines the records before
\* it span
C6_LineNumIsStartLine ==
    api \in Readers =>
        \A k \in 1..Len(produced) :
            produced[k].line_num = 1 + SumSpans(input, k - 1)

C6_Witness ==
    /\ api = "reader_gen"
    /\ \E k \in 1..Len(out) : out[k].line_num > k + 1

\* What reader hands on of the Lines reader_gen built
ReaderKeeps(i) ==
    /\ HandlerKeeps(opts.handler, produced[i])
    /\ ~(opts.ignore_blanks /\ produced[i].data = <<>>)

\* C7: reader yields the records its handler keeps, minus the empty ones when
\* ignore_blanks is on, each under the line number reader_gen gave it, in
\* input order; with ignore_blanks on no empty record is yielded, with it off
\* the empty record is yielded, empty, at its own line number
C7_BlankRows ==
    api = "reader" =>
        LET kept == Indices(ReaderKeeps, Len(produced))
        IN  /\ Len(out) = Len(kept)
            /\ \A j \in 1..Len(out) :
                  /\ out[j].line_num = produced[kept[j]].line_num
                  /\ Len(out[j].data) = Len(produced[kept[j]].data)
            /\ opts.ignore_blanks => \A j \in 1..Len(out) : out[j].data # <<>>

C7_Witness ==
    /\ api = "reader"
    /\ opts.ignore_blanks
    /\ Len(out) = 2
    /\ Len(produced) = 3
    /\ produced[2].data = <<>>
    /\ out[2].line_num = produced[3].line_num

\* The fields of record i as the keyed reader receives them
Recv(i) == StripAll(input[i].fields, opts)

IsBlank(i) == opts.ignore_blanks /\ input[i].fields = <<>>

ReachesKeyed(i) == HandlerKeeps(opts.raw_handler, produced[i]) /\ ~IsBlank(i)

\* The record the names were taken from (0: the caller gave them)
HeaderIdx ==
    IF opts.fields # NoFields THEN 0
    ELSE LET c == {i \in 1..Len(log) : ReachesKeyed(i)}
         IN  IF c = {} THEN Len(log) + 1 ELSE CHOOSE i \in c : \A j \in c : i <= j

IsData(i) == ReachesKeyed(i) /\ i > HeaderIdx

Short(i) == Len(input[i].fields) < Len(names) /\ opts.rest_val = None
Long(i) == Len(input[i].fields) > Len(names) /\ opts.rest_key = None

\* C3: a data record with fewer fields than names and no rest_val, or more
\* and no rest_key, raises ValueError(tag, line number, number of names,
\* number of fields); any other data record raises nothing
C3_ArityError ==
    api = "dict_reader" =>
        /\ \A i \in 1..Len(log) :
              IsData(i) =>
                  /\ Short(i) =>
                        /\ log[i].tag = "error"
                        /\ err = <<"insufficient fields", produced[i].line_num,
                                   Len(names), Len(input[i].fields)>>
                  /\ Long(i) =>
                        /\ log[i].tag = "error"
                        /\ err = <<"too many fields", produced[i].line_num,
                                   Len(names), Len(input[i].fields)>>
                  /\ (~Short(i) /\ ~Long(i)) => log[i].tag # "error"
        /\ (\A i \in 1..Len(log) : log[i].tag # "error") => err = NoErr

C3_Witness ==
    /\ api = "dict_reader"
    /\ opts.rest_val # None
    /\ err # NoErr
    /\ err[1] = "too many fields"
    /\ \E k \in 1..Len(out) : s7 \in {out[k].data[n] : n \in DOMAIN out[k].data}

DupCond(i) == opts.ignore_rows_with_fields /\ Recv(i) = names

ShouldYield(i) ==
    /\ IsData(i)
    /\ ~DupCond(i)
    /\ ~Short(i)
    /\ ~Long(i)
    /\ HandlerKeeps(opts.handler, produced[i])

\* C4: a data record is dropped as a repeated header exactly when
\* ignore_rows_with_fields is on and its fields, as the keyed reader receives
\* them, equal the names position by position; the handler is not invoked
\* for it; the records that are yielded come in input order, one each
C4_HeaderRows ==
    api \in {"dict_reader", "obj_reader"} =>
        /\ \A i \in 1..Len(log) :
              IsData(i) =>
                  /\ (log[i].tag = "dup") <=> DupCond(i)
                  /\ DupCond(i) => ~log[i].handled
        /\ LET idx == Indices(ShouldYield, Len(log))
           IN  LineNums(out) = [j \in 1..Len(idx) |-> produced[idx[j]].line_num]

C4_Witness ==
    /\ api \in {"dict_reader", "obj_reader"}
    /\ opts.fields = NoFields
    /\ Len(log) = 3
    /\ log[2].tag = "dup"
    /\ Len(out) = 1
    /\ out[1].line_num = 3

\* The record of the input that the k-th yielded mapping was made from
SourceOf(k) == CHOOSE i \in 1..Len(produced) : produced[i].line_num = out[k].line_num

ExpectedKeys(i) ==
    {Rename(opts.field_rename, names[j]) : j \in 1..Len(names)}
    \cup {RestKey(opts.rest_key, x) : x \in 0..(Len(input[i].fields) - Len(names) - 1)}

ValuesOf(m) == {m[k] : k \in DOMAIN m}

WouldYield(i) ==
    /\ opts.handler = "none"
    /\ opts.raw_handler = "none"
    /\ Len(input[i].fields) = Len(names)
    /\ ~DupCond(i)

\* C9 as claimed: once the caller has caught the arity error and pulled
\* again, no record that would be yielded is left unread
C9_ResumeAfterError ==
    (api = "dict_reader" /\ err # NoErr /\ resumed) =>
        \A i \in (pos + 1)..Len(input) : ~WouldYield(i)

\* C9, amended: the arity error ends the reader: the generator is finished,
\* the offending record is the last one read, the stream reader_gen opened is
\* closed, and only records before the offending one have been yielded
C9_ErrorEndsReader ==
    (api = "dict_reader" /\ err # NoErr) =>
        /\ gstate = "done"
        /\ log[Len(log)].tag = "error"
        /\ pos = Len(log)
        /\ stream = [opens |-> 1, closes |-> 1]
        /\ \A k \in 1..Len(out) : out[k].line_num < err[2]

C9_Witness ==
    /\ api = "dict_reader"
    /\ err # NoErr
    /\ resumed
    /\ Len(out) = 1
    /\ \E i \in (pos + 1)..Len(input) : WouldYield(i)

-----------------------------------------------------------------------------
(* Properties of the writers *)

UsedKeys == UNION {Keys(written[i]) : i \in 1..Len(written)}

ExpectedRow(m, header) ==
    [j \in 1..Len(header) |->
        IF \E p \in m : p[1] = header[j] THEN (CHOOSE p \in m : p[1] = header[j])[2]
        ELSE IF opts.rest_val = None THEN sEmpty ELSE opts.rest_val]

\* Writes followed by close on a minimizing DictWriter with include unset
C1_Case ==
    /\ api = "DictWriter"
    /\ opts.minimize
    /\ opts.include = {}
    /\ mw.state = "open"
    /\ mw.closed
    /\ mw.replayed = Len(written)

C1_HeaderAndRows ==
    LET header == SelectSeq(opts.fields, LAMBDA f : f \in UsedKeys)
    IN  /\ Len(out) = 1 + Len(written)
        /\ out[1] = header
        /\ \A i \in 1..Len(written) : out[1 + i] = ExpectedRow(written[i], header)

RoundTrip(ro) ==
    LET back == ReadBack(out, ro)
    IN  /\ back.err = NoErr
        /\ Rewrite(api, opts, [i \in 1..Len(back.items) |-> AsMap(back.items[i])]) = out

\* A reader that hands on every row and every field as written
KeepAllOpts ==
    [DefaultOpts EXCEPT !.ignore_rows_with_fields = FALSE, !.leading_ws = TRUE,
                        !.trailing_ws = TRUE, !.ignore_blanks = FALSE]

\* C1 as claimed: the header is the declared fields that occur as a key, in
\* declared order, each row holds the written values with rest_val (or the
\* empty string) for a missing key, and the records read back by
\* dict_reader, written again with the same settings, give the same output
C1_RoundTrip == C1_Case => (C1_HeaderAndRows /\ RoundTrip(DefaultOpts))

\* C1, amended: the header and the rows are as claimed; read back by a
\* dict_reader that keeps rows equal to the header, white space and blank
\* rows, and written again with the same settings, they give the same output
C1_RoundTripKeepingAll == C1_Case => (C1_HeaderAndRows /\ RoundTrip(KeepAllOpts))

C1_Witness ==
    /\ C1_Case
    /\ opts.rest_val = s7
    /\ out = <<<<sA, sC>>, <<sA, sC>>, <<s1, s7>>, <<sPadB, s3>>>>

\* C2: a minimizing writer hands no row to the Writer before it is
\* finalized; once finalized the Writer has received the header, once, and
\* then one row per written record in the order written, the replayed ones
\* before the ones written after finalization; a closed writer is finalized
\* and has closed the Writer and its stream
C2_DeferredHeader ==
    (api \in MapWriters /\ opts.minimize /\ mw.state = "open") =>
        /\ ~mw.finalized => (out = <<>> /\ mw.spill = written /\ ~wobj.closed)
        /\ mw.finalized =>
              /\ out = <<mw.order>> \o
                       [i \in 1..Len(written) |->
                           Extract(written[i], mw.order, opts.rest_val)]
              /\ mw.replayed <= Len(written)
              /\ mw.spill = <<>>
              /\ ~mw.spill_open
        /\ mw.closed =>
              /\ mw.finalized
              /\ wobj.closed
              /\ stream.closes = stream.opens

C2_Witness ==
    /\ api \in MapWriters
    /\ opts.minimize
    /\ mw.closed
    /\ mw.replayed = 2
    /\ Len(written) = 3
    /\ Len(out) = 4

BadInclude == opts.include \ FieldSet(opts) # {}

IsIncludeError(e) ==
    /\ e # NoErr
    /\ e[1] = "ValueError"
    /\ e[2] = "include specifies fields not specified"

\* C10 as claimed: an include list with an undeclared name always makes the
\* constructor fail with the include error, before the sink is opened or
\* written, leaving no stream or spill store open
C10_FailsBeforeIO ==
    (api \in MapWriters /\ mw.state # "new" /\ BadInclude) =>
        /\ mw.state = "failed"
        /\ IsIncludeError(err)
        /\ stream.opens = 0
        /\ out = <<>>
        /\ ~mw.spill_open

\* C10, amended: with minimize on, an include list with an undeclared name
\* makes the constructor fail: with the include error (naming the undeclared
\* names) once the sink is open, or with the sink's own error; nothing has
\* been written, no spill store exists, and the Writer and the stream it
\* opened are closed again. With minimize off include is not checked.
C10_IncludeChecked ==
    (api \in MapWriters /\ mw.state # "new" /\ BadInclude) =>
        IF opts.minimize
        THEN /\ mw.state = "failed"
             /\ err # NoErr
             /\ out = <<>>
             /\ ~mw.spill_open
             /\ wobj.closed
             /\ stream.closes = stream.opens
             /\ IsIncludeError(err) =>
                   /\ err[3] = opts.include \ FieldSet(opts)
                   /\ opts.managed => stream.opens = 1
        ELSE /\ ~IsIncludeError(err)
             /\ mw.state = "failed" => err[1] \in {"OSError", "csv.Error"}

C10_Witness ==
    /\ api \in MapWriters
    /\ mw.state = "failed"
    /\ IsIncludeError(err)
    /\ stream = [opens |-> 1, closes |-> 1]

====
